---- MODULE Spec2Model ----
(***************************************************************************)
(* Model of tools/testrunner.py: BasicTestRunner.runcase (the per-case     *)
(* execution engine), the threading.Timer thread running _handle_timeout,  *)
(* the child process, KeyboardInterrupt delivery to the main thread, and   *)
(* the batch driver LocalTestRunner.run.                                   *)
(*                                                                         *)
(* The main thread is modelled statement by statement: pc is the line it   *)
(* is about to execute.  A KeyboardInterrupt is raised between two         *)
(* statements of the main thread; the timer thread and the child process   *)
(* interleave freely with it.  Library calls (Popen, poll, terminate,      *)
(* wait, Timer.start, Timer.cancel, readline) are atomic steps with their  *)
(* documented behaviour.                                                   *)
(***************************************************************************)
EXTENDS Integers, Sequences, FiniteSets, TLC

(* ---------------------------- bounds ----------------------------------- *)
MaxCases == 2        \* runcase calls in one behaviour
MaxLines == 2        \* output lines one child produces
MaxInterrupts == 2   \* KeyboardInterrupts delivered in one behaviour
LiveLines == 1       \* output lines of one child, in the termination check
LiveInterrupts == 1  \* KeyboardInterrupts, in the termination check

Runs == 1..MaxCases

(* ------------------------ dynamically typed values ---------------------- *)
\* Python values that reach the fields of TestCaseInfo: numbers, the float
\* inf, mappings, strings, booleans, and "absent" for a missing JSON key.
Val(ty, n, s, m) == [ty |-> ty, n |-> n, s |-> s, m |-> m]
Absent == Val("absent", 0, "", {})
Num(k) == Val("num", k, "", {})
Inf == Val("inf", 0, "", {})
Str(s) == Val("str", 0, s, {})
Bool(b) == Val("bool", IF b THEN 1 ELSE 0, "", {})
Map(m) == Val("map", 0, "", m)

\* A mapping is a set of <<key, value>> pairs with distinct keys.
\* {**env, **over}: the entries of over, and those of env it does not override.
Merge(env, over) ==
    over \cup {p \in env : ~ \E q \in over : q[1] = p[1]}

\* dict.get(key, default) on a case entry
Get(entry, key, default) ==
    IF entry[key].ty = "absent" THEN default ELSE entry[key]

(* ------------------------------ paths ---------------------------------- *)
\* A path is a sequence of segments; a segment has a stem and a suffix.
Seg(stem, suffix) == [stem |-> stem, suffix |-> suffix]
A_SH == <<Seg("a", ".sh")>>                     \* regular file
B_PY == <<Seg("b", ".py")>>                     \* regular file
C_TXT == <<Seg("c", ".txt")>>                   \* regular file, other suffix
D_SH == <<Seg("d", ".sh")>>                     \* a directory
E_SH == <<Seg("e", ".sh")>>                     \* does not exist
SUB_A_SH == <<Seg("sub", ""), Seg("a", ".sh")>> \* regular file in a subdirectory

_case_dir == <<Seg("test-case", "")>>
joinpath(dir, name) == dir \o name
RegularFiles == {joinpath(_case_dir, n) : n \in {A_SH, B_PY, C_TXT, SUB_A_SH}}
\* a lookup that takes every path for a regular file
is_file_Always(p) == TRUE
is_file(p) == p \in RegularFiles
\* Path.name: the last segment, as a name of its own
PathName(p) == <<p[Len(p)]>>
\* Path.suffix
PathSuffix(p) == p[Len(p)].suffix

NoCmd == <<>>
\* __resolve_cmd: the interpreter by suffix, with "path + ' ' + args" as the
\* single command string; NoCmd stands for None.
resolve_cmd(filepath, args) ==
    LET cmd == [path |-> filepath, args |-> args]
    IN  IF PathSuffix(filepath) \in {".sh", ".bash"} THEN <<"bash", "-c", cmd>>
        ELSE IF PathSuffix(filepath) = ".py" THEN <<"python", "-c", cmd>>
        ELSE NoCmd

\* line 57: the case is resolvable
Resolvable(name, args) ==
    LET filepath == joinpath(_case_dir, name)
    IN  /\ PathName(filepath) = name
        /\ is_file(filepath)
        /\ resolve_cmd(filepath, args) # NoCmd

(* --------------------------- descriptors -------------------------------- *)
\* TestCaseInfo(name, args, env, timeout, skip, skipreason): the dataclass
\* constructor binds positional arguments in field order.
TestCaseInfo(name, args, env, timeout, skip, skipreason) ==
    [name |-> name, args |-> args, env |-> env, timeout |-> timeout,
     skip |-> skip, skipreason |-> skipreason]
NoCase == TestCaseInfo(<<>>, "", Absent, Absent, FALSE, Absent)

EnvG == {<<"A", "g">>, <<"B", "g">>}     \* a global env map
EnvC == {<<"A", "c">>}                   \* a per-case env map
Names == {A_SH, B_PY, C_TXT, D_SH, E_SH, SUB_A_SH}
PosTimeout == 2                          \* a finite positive timeout

\* Well-formed descriptors a caller of runcase passes: a.sh with a timeout
\* and with an infinite one, every other name with timeout 0, a skipped one.
Descriptors ==
    {TestCaseInfo(A_SH, "", Map(EnvC), t, FALSE, Str("")) :
        t \in {Num(PosTimeout), Inf}}
    \cup {TestCaseInfo(nm, "", Map(EnvC), Num(0), FALSE, Str("")) :
            nm \in Names \ {A_SH}}
    \cup {TestCaseInfo(A_SH, "", Map(EnvC), Num(0), TRUE, Str("flaky"))}

\* Case entries of a profile: the keys args, timeout, env, skip are optional.
Entry(name, args, timeout, env, skip) ==
    [name |-> name, args |-> args, timeout |-> timeout, env |-> env, skip |-> skip]
Entries ==
    {Entry(nm, Absent, t, e, Absent) :
        nm \in {Str("a.sh"), Str("e.sh"), Absent},
        t \in {Absent, Num(PosTimeout), Map({})},
        e \in {Absent, Map(EnvC)}}
    \cup {Entry(Str("a.sh"), Str("-v"), Absent, Absent, sk) :
        sk \in {Bool(FALSE), Bool(TRUE), Str("flaky"), Num(0)}}
\* the file name a JSON string denotes
NameOf(s) == IF s = "a.sh" THEN A_SH ELSE E_SH

(* --------------------------- exit codes --------------------------------- *)
NoCode == 255       \* stands for Python's None as an exit code
SIGTERM == 15       \* a child killed by terminate() returns -SIGTERM
ExitCodes == {0, 1}

(* ------------------------------ state ----------------------------------- *)
VARIABLES
    dry_run,     \* self.dry_run
    status,      \* self._status
    timerField,  \* self._timer: 0 for None, else the run whose Timer it holds
    data,        \* run(): the profile, [env, cases]; cases = -1 when the key is missing
    drv,         \* run(): the line the driver is at
    envv,        \* run(): local env
    todo,        \* run(): entries of data['cases'] not yet iterated
    entryv,      \* run(): loop variable case
    pc,          \* runcase(): the line the main thread is at
    cur,         \* the run (runcase call) in progress, 0 when none
    nruns,       \* runcase calls made so far
    case,        \* runcase(): parameter case
    cmd,         \* runcase(): local cmd
    procv,       \* runcase(): local proc, 0 for None
    linev,       \* runcase(): local line, 0 for ''
    codev,       \* _handle_interrupt(): the value proc.wait(10) returned
    pending,     \* the exception in flight while a finally block runs
    child,       \* the child process of each run
    timerSt,     \* the Timer thread of each run
    runnable,    \* the case of the latest call is not skipped and is resolvable
    log,         \* what the hooks reported since the latest call of runcase
    last,        \* the latest event reported, with its arguments
    nint         \* KeyboardInterrupts delivered so far

vars == <<dry_run, status, timerField, data, drv, envv, todo, entryv, pc, cur,
          nruns, case, cmd, procv, linev, codev, pending, child, timerSt, runnable,
          log, last, nint>>
driverVars == <<data, drv, envv, todo, entryv, status>>
localVars == <<case, cmd, procv, linev, codev>>

\* A child: its state, exit status, the lines it wrote and those read from
\* the pipe, whether its end of the pipe is open, whether it was sent
\* SIGTERM, its environment; early notes that it exited before the timer of
\* its run had fired.
NoChild == [st |-> "none", code |-> NoCode, produced |-> 0, consumed |-> 0,
            open |-> FALSE, term |-> FALSE, env |-> Absent, early |-> FALSE]
NoTimer == [st |-> "none", to |-> Absent]
NoEntry == Entry(Absent, Absent, Absent, Absent, Absent)
NoData == [env |-> Absent, cases |-> 0]

\* An event: one call of a reporting hook.  The kinds "call", "return" and
\* "raise" mark the entry of runcase and the two ways it is left.
Ev(run, kind, code, intr, to, n, c, val) ==
    [run |-> run, kind |-> kind, code |-> code, intr |-> intr, to |-> to,
     n |-> n, cmd |-> c, val |-> val]
Mark(run, kind) == Ev(run, kind, NoCode, FALSE, Absent, 0, NoCmd, Absent)
\* _handle_exit(exitcode, interrupt=False, timeout=None)
_handle_exit(run, exitcode, interrupt, timeout) ==
    Ev(run, "exit", exitcode, interrupt, timeout, 0, NoCmd, Absent)
\* a skip hook that reports a fixed text instead of the reason it is given
_handle_skip_NoReason(run, reason) ==
    Ev(run, "skip", NoCode, FALSE, Absent, 0, NoCmd, Str("Skipped"))
_handle_skip(run, reason) == Ev(run, "skip", NoCode, FALSE, Absent, 0, NoCmd, reason)
_handle_unknown_case(run) == Mark(run, "unknown")
_handle_unknown_exception(run) == Mark(run, "exception")
_handle_output_line(run, n) == Ev(run, "line", NoCode, FALSE, Absent, n, NoCmd, Absent)
_before_cmd_run(run, c) == Ev(run, "pre", NoCode, FALSE, Absent, 0, c, Absent)
_after_cmd_run(run, c) == Ev(run, "post", NoCode, FALSE, Absent, 0, c, Absent)

\* What a run's event tells of its outcome: the terminal outcomes are Exited,
\* TimedOut, Interrupted and SpawnOrRuntimeError.
Kind(e) ==
    IF e.kind = "exit"
    THEN IF e.to # Absent THEN "TimedOut"
         ELSE IF e.intr THEN "Interrupted" ELSE "Exited"
    ELSE IF e.kind = "exception" THEN "SpawnOrRuntimeError"
    ELSE e.kind
\* An entry of the log: the run whose thread reported, and what it reported
Entry_(e) == <<e.run, Kind(e)>>
Entries_(events) == [i \in 1..Len(events) |-> Entry_(events[i])]

\* A hook is called with e.  log is the report of the current case: the
\* entries since the latest call of runcase, in order; last is the latest
\* event in full.
Emit(e) ==
    /\ log' = Append(log, Entry_(e))
    /\ last' = e

Init ==
    /\ dry_run \in BOOLEAN
    /\ status = "Idle"
    /\ timerField = 0
    /\ data = NoData
    /\ drv = "idle"
    /\ envv = {}
    /\ todo = 0
    /\ entryv = NoEntry
    /\ pc = "idle"
    /\ cur = 0
    /\ nruns = 0
    /\ case = NoCase
    /\ cmd = NoCmd
    /\ procv = 0
    /\ linev = 0
    /\ codev = NoCode
    /\ pending = "none"
    /\ child = [r \in Runs |-> NoChild]
    /\ timerSt = [r \in Runs |-> NoTimer]
    /\ runnable = FALSE
    /\ log = <<>>
    /\ last = Mark(0, "none")
    /\ nint = 0

(* ------------------- leaving runcase: return and raise ------------------- *)
\* the reset as the last statement of the body instead of a finally block
StatusAfterRun_NoFinally(raised) == IF raised THEN status ELSE "Idle"
\* lines 184-185, finally: self._status = 'Idle', however run is left.  The
\* block is this one assignment: it is carried out with the step that
\* enters it.
StatusAfterRun(raised) == "Idle"

\* What is left of a child once runcase is over: the Popen object and its
\* pipe are dropped with the frame of runcase, the process itself goes on.
Dropped(ch) ==
    IF ch.st = "none" THEN ch
    ELSE [NoChild EXCEPT !.st = ch.st, !.term = ch.term, !.early = ch.early]

\* runcase returns: to its caller, or to line 183 of run, whose loop goes on.
Leave(mark) ==
    /\ pc' = "idle"
    /\ child' = [child EXCEPT ![cur] = Dropped(child[cur])]
    /\ cur' = 0
    /\ case' = NoCase /\ cmd' = NoCmd /\ procv' = 0 /\ linev' = 0 /\ codev' = NoCode
    /\ pending' = "none"
    /\ mark \in {"return", "raise"}
    /\ IF drv = "in183"
       THEN IF mark = "return"
            THEN drv' = "l174" /\ status' = status
            \* the exception leaves the for loop: finally, line 185
            ELSE drv' = "raised" /\ status' = StatusAfterRun(TRUE)
       ELSE drv' = drv /\ status' = status
    /\ UNCHANGED <<data, envv, todo, entryv>>

Return(events) ==
    /\ log' = log \o Entries_(events) \o << <<cur, "return">> >>
    /\ last' = IF events = <<>> THEN last ELSE events[Len(events)]
    /\ Leave("return")
Raise(events) ==
    /\ log' = log \o Entries_(events) \o << <<cur, "raise">> >>
    /\ last' = IF events = <<>> THEN last ELSE events[Len(events)]
    /\ Leave("raise")

(* ------------------------------ runcase --------------------------------- *)
\* A caller of the engine calls runcase(d) (line 48).
CallRuncase(d) ==
    /\ drv = "idle" /\ pc = "idle" /\ nruns < MaxCases
    /\ nruns' = nruns + 1
    /\ cur' = nruns + 1
    /\ case' = d
    /\ runnable' = (~ d.skip /\ Resolvable(d.name, d.args))
    /\ pc' = "l51"
    /\ log' = << <<nruns + 1, "call">> >>
    /\ last' = Mark(nruns + 1, "call")
    /\ UNCHANGED <<dry_run, timerField, driverVars, cmd, procv, linev, codev,
                   pending, child, timerSt, nint>>

\* lines 51-53: a skipped case is reported and nothing else happens
L51_Skip ==
    /\ pc = "l51"
    /\ IF case.skip
       THEN /\ Return(<<_handle_skip(cur, case.skipreason)>>)
            /\ UNCHANGED nruns
       ELSE /\ pc' = "l54"
            /\ UNCHANGED <<log, last, driverVars, cur, nruns, localVars, pending,
                           child>>
    /\ UNCHANGED <<runnable, dry_run, timerField, timerSt, nint>>

\* lines 54-59: resolve the case file and its command
L54_Resolve ==
    /\ pc = "l54"
    /\ LET filepath == joinpath(_case_dir, case.name)
           c == resolve_cmd(filepath, case.args)
       IN  IF ~ Resolvable(case.name, case.args)
           THEN /\ Return(<<_handle_unknown_case(cur)>>)
                /\ UNCHANGED nruns
           ELSE /\ pc' = "l60"
                /\ cmd' = c
                /\ UNCHANGED <<log, last, driverVars, cur, nruns, case, procv, linev,
                               codev, pending, child>>
    /\ UNCHANGED <<runnable, dry_run, timerField, timerSt, nint>>

\* line 60: the pre-run hook
L60_Before ==
    /\ pc = "l60"
    /\ Emit(_before_cmd_run(cur, cmd))
    /\ pc' = "l61"
    /\ UNCHANGED <<runnable, dry_run, timerField, driverVars, cur, nruns, localVars,
                   pending, child, timerSt, nint>>

\* runcase without the test of line 61
L61_DryRun_Spawns ==
    /\ pc = "l61"
    /\ pc' = "l67"
    /\ UNCHANGED <<log, last, driverVars, cur, nruns, localVars, pending, child,
                   runnable, dry_run, timerField, timerSt, nint>>
\* lines 61-63: dry run
L61_DryRun ==
    /\ pc = "l61"
    /\ IF dry_run
       THEN /\ Return(<<_handle_exit(cur, 0, FALSE, Absent)>>)
            /\ UNCHANGED nruns
       ELSE /\ pc' = "l67"
            /\ UNCHANGED <<log, last, driverVars, cur, nruns, localVars, pending,
                           child>>
    /\ UNCHANGED <<runnable, dry_run, timerField, timerSt, nint>>

\* lines 67-76: subprocess.Popen(cmd, ..., env=case.env, ...).  Popen walks
\* env.items(): an env that is no mapping raises; with a mapping the spawn
\* succeeds or fails with an OSError.
L67_Popen ==
    /\ pc = "l67"
    /\ \E ok \in BOOLEAN :
        IF case.env.ty = "map" /\ ok
        THEN /\ child' = [child EXCEPT ![cur] =
                    [st |-> "alive", code |-> NoCode, produced |-> 0,
                     consumed |-> 0, open |-> TRUE, term |-> FALSE,
                     env |-> case.env, early |-> FALSE]]
             /\ procv' = cur
             /\ pc' = "l77"
        ELSE /\ pc' = "l90"
             /\ UNCHANGED <<child, procv>>
    /\ UNCHANGED <<runnable, dry_run, timerField, driverVars, cur, nruns, case, cmd, linev,
                   codev, pending, timerSt, log, last, nint>>

\* math.isfinite(x) raises TypeError unless x is a real number
isfinite_raises(x) == x.ty \notin {"num", "inf"}
isfinite(x) == x.ty = "num"
\* the condition without math.isfinite
TimerWanted_NonZero(timeout) == timeout.ty = "inf" \/ timeout.n > 0
\* line 77: the condition under which a timer is armed
TimerWanted(timeout) == isfinite(timeout) /\ timeout.n > 0

\* line 77
L77_TimerCheck ==
    /\ pc = "l77"
    /\ pc' = IF isfinite_raises(case.timeout) THEN "l90"
             ELSE IF TimerWanted(case.timeout) THEN "l78"
             ELSE "l81"
    /\ UNCHANGED <<runnable, dry_run, timerField, driverVars, cur, nruns, localVars,
                   pending, child, timerSt, log, last, nint>>

\* line 78: self._timer = Timer(case.timeout, self._handle_timeout,
\*                             args=[proc, case.timeout])
L78_TimerCreate ==
    /\ pc = "l78"
    /\ timerField' = cur
    /\ timerSt' = [timerSt EXCEPT ![cur] = [st |-> "created", to |-> case.timeout]]
    /\ pc' = "l79"
    /\ UNCHANGED <<runnable, dry_run, driverVars, cur, nruns, localVars, pending, child,
                   log, last, nint>>

\* line 79: self._timer.start()
L79_TimerStart ==
    /\ pc = "l79"
    /\ timerSt' = [timerSt EXCEPT ![timerField].st = "armed"]
    /\ pc' = "l81"
    /\ UNCHANGED <<runnable, dry_run, timerField, driverVars, cur, nruns, localVars,
                   pending, child, log, last, nint>>

\* lines 81-82: readline blocks until a line is there or the stream is at
\* end of file; it returns '' (0) only at end of file.
L81_Readline ==
    /\ pc = "l81"
    /\ LET ch == child[procv]
       IN  \/ /\ ch.consumed < ch.produced
              /\ linev' = ch.consumed + 1
              /\ child' = [child EXCEPT ![procv].consumed = ch.consumed + 1]
              /\ pc' = "l83"
           \/ /\ ch.consumed = ch.produced /\ ~ ch.open
              /\ linev' = 0
              /\ child' = child
              /\ pc' = "l84"
    /\ UNCHANGED <<runnable, dry_run, timerField, driverVars, cur, nruns, case, cmd, procv,
                   codev, pending, timerSt, log, last, nint>>

\* line 83: the output hook; it may raise (a closed stdout, say)
L83_Output ==
    /\ pc = "l83"
    /\ \/ /\ Emit(_handle_output_line(cur, linev))
          /\ pc' = "l81"
       \/ /\ pc' = "l90"
          /\ UNCHANGED <<log, last>>
    /\ UNCHANGED <<runnable, dry_run, timerField, driverVars, cur, nruns, localVars,
                   pending, child, timerSt, nint>>

\* a poll that takes every child for exited
poll_is_None_Never(ch) == FALSE
\* Popen.poll() is None
poll_is_None(ch) == ch.st = "alive"

\* line 84: elif proc.poll() is not None: break
L84_Poll ==
    /\ pc = "l84"
    /\ pc' = IF ~ poll_is_None(child[procv]) THEN "l86" ELSE "l81"
    /\ UNCHANGED <<runnable, dry_run, timerField, driverVars, cur, nruns, localVars,
                   pending, child, timerSt, log, last, nint>>

\* line 86: self._handle_exit(proc.returncode); when the hook has reported,
\* the call is still to return into the try body
L86_Exit ==
    /\ pc = "l86"
    /\ Emit(_handle_exit(cur, child[procv].code, FALSE, Absent))
    /\ pc' = "l86x"
    /\ UNCHANGED <<runnable, dry_run, timerField, driverVars, cur, nruns, localVars,
                   pending, child, timerSt, nint>>

\* line 90: except Exception: self._handle_unknown_exception(error)
L90_Exception ==
    /\ pc = "l90"
    /\ Emit(_handle_unknown_exception(cur))
    /\ pc' = "l91"
    /\ UNCHANGED <<runnable, dry_run, timerField, driverVars, cur, nruns, localVars,
                   pending, child, timerSt, nint>>

(* ------------------------- _handle_interrupt ---------------------------- *)
\* Popen.terminate(): SIGTERM to a live child, nothing for one that has exited
terminate(ch) == IF ch.st = "alive" THEN [ch EXCEPT !.term = TRUE] ELSE ch

\* the test of line 135 without the poll
StillRunning_NoPoll(p) == p # 0
\* line 135: if proc is not None and proc.poll() is None
StillRunning(p) == p # 0 /\ poll_is_None(child[p])

L135_IntrCheck ==
    /\ pc = "l135"
    /\ pc' = IF StillRunning(procv) THEN "l136" ELSE "l91"
    /\ UNCHANGED <<runnable, dry_run, timerField, driverVars, cur, nruns, localVars,
                   pending, child, timerSt, log, last, nint>>

\* line 136: proc.terminate()
L136_IntrTerminate ==
    /\ pc = "l136"
    /\ child' = [child EXCEPT ![procv] = terminate(child[procv])]
    /\ pc' = "l137"
    /\ UNCHANGED <<runnable, dry_run, timerField, driverVars, cur, nruns, localVars,
                   pending, timerSt, log, last, nint>>

\* a wait without a timeout never gives up
GraceOver_Never(ch) == FALSE
\* proc.wait(10) raises subprocess.TimeoutExpired for a child that is alive
\* when the 10 seconds are over
GraceOver(ch) == ch.st = "alive"

\* line 137, proc.wait(10): the exit code of a child that exits within the
\* grace period, TimeoutExpired otherwise
L137_IntrWait ==
    /\ pc = "l137"
    /\ \/ /\ child[procv].st = "exited"
          /\ codev' = child[procv].code
          /\ pc' = "l137e"
       \/ /\ GraceOver(child[procv])
          /\ codev' = codev
          /\ pc' = "l139"
    /\ UNCHANGED <<runnable, dry_run, timerField, driverVars, cur, nruns, case, cmd, procv,
                   linev, pending, child, timerSt, log, last, nint>>

\* line 137: self._handle_exit(<code>, interrupt=True)
L137_IntrExit ==
    /\ pc = "l137e"
    /\ Emit(_handle_exit(cur, codev, TRUE, Absent))
    /\ pc' = "l91"
    /\ UNCHANGED <<runnable, dry_run, timerField, driverVars, cur, nruns, localVars,
                   pending, child, timerSt, nint>>

\* line 139: except subprocess.TimeoutExpired: self._handle_exit(None, interrupt=True)
L139_IntrGraceOver ==
    /\ pc = "l139"
    /\ Emit(_handle_exit(cur, NoCode, TRUE, Absent))
    /\ pc' = "l91"
    /\ UNCHANGED <<runnable, dry_run, timerField, driverVars, cur, nruns, localVars,
                   pending, child, timerSt, nint>>

(* ------------------------------ finally --------------------------------- *)
\* The try body (after line 86) or an except clause (after lines 88, 90) is
\* over: the finally block is next.
L91_EndOfClause ==
    /\ pc \in {"l86x", "l91"}
    /\ pc' = "l92"
    /\ UNCHANGED <<runnable, dry_run, timerField, driverVars, cur, nruns, localVars,
                   pending, child, timerSt, log, last, nint>>

\* Timer.cancel(): a timer that has not fired yet never will
cancel(t) == IF t.st \in {"created", "armed"} THEN [t EXCEPT !.st = "cancelled"] ELSE t

\* lines 92-93: proc = None; if self._timer is not None
L92_Finally ==
    /\ pc = "l92"
    /\ procv' = 0
    /\ pc' = IF timerField # 0 THEN "l94" ELSE "l96"
    /\ UNCHANGED <<runnable, dry_run, timerField, driverVars, cur, nruns, case, cmd, linev,
                   codev, pending, child, timerSt, log, last, nint>>

\* line 94: self._timer.cancel()
L94_Cancel ==
    /\ pc = "l94"
    /\ timerSt' = [timerSt EXCEPT ![timerField] = cancel(timerSt[timerField])]
    /\ pc' = "l95"
    /\ UNCHANGED <<runnable, dry_run, timerField, driverVars, cur, nruns, localVars,
                   pending, child, log, last, nint>>

\* line 95: self._timer = None
L95_Clear ==
    /\ pc = "l95"
    /\ timerField' = 0
    /\ pc' = "l96"
    /\ UNCHANGED <<runnable, dry_run, driverVars, cur, nruns, localVars, pending, child,
                   timerSt, log, last, nint>>

\* line 96: the post-run hook; then runcase returns, or the exception that
\* entered the finally block goes on to the caller
L96_After ==
    /\ pc = "l96"
    /\ IF pending = "none"
       THEN Return(<<_after_cmd_run(cur, cmd)>>)
       ELSE Raise(<<_after_cmd_run(cur, cmd)>>)
    /\ UNCHANGED <<runnable, dry_run, timerField, nruns, timerSt, nint>>

(* ------------------------- KeyboardInterrupt ---------------------------- *)
TryBody == {"l67", "l77", "l78", "l79", "l81", "l83", "l84", "l86", "l86x"}
Handlers == {"l135", "l136", "l137", "l137e", "l139", "l90", "l91"}
FinallyBlock == {"l92", "l94", "l95", "l96"}
BeforeTry == {"l51", "l54", "l60", "l61"}
DriverBody == {"l172", "l173", "l174", "l175", "l183"}

\* The statement the main thread is at raises KeyboardInterrupt: inside the
\* try body line 87 catches it; inside an except clause it enters the finally
\* block and goes on afterwards; anywhere else it leaves runcase at once.
\* The log notes the interrupt, and whether the child of the run had
\* exited by then.
InterruptMark ==
    <<cur, IF child[cur].st = "exited" THEN "interrupt_exited" ELSE "interrupt">>

Interrupt ==
    /\ nint < MaxInterrupts
    /\ nint' = nint + 1
    /\ \/ /\ pc \in TryBody
          /\ pc' = "l135"
          /\ log' = Append(log, InterruptMark)
          /\ UNCHANGED <<driverVars, cur, localVars, pending, last, child>>
       \/ /\ pc \in Handlers
          /\ pc' = "l92"
          /\ pending' = "KeyboardInterrupt"
          /\ log' = Append(log, InterruptMark)
          /\ UNCHANGED <<driverVars, cur, localVars, last, child>>
       \/ /\ pc \in FinallyBlock \cup BeforeTry
          /\ log' = log \o <<InterruptMark, <<cur, "raise">> >>
          /\ last' = last
          /\ Leave("raise")
       \/ /\ pc = "idle" /\ drv \in DriverBody
          /\ drv' = "raised"
          /\ status' = StatusAfterRun(TRUE)
          /\ UNCHANGED <<data, envv, todo, entryv, pc, cur, localVars, pending, log,
                         last, child>>
    /\ UNCHANGED <<runnable, dry_run, timerField, nruns, timerSt>>

(* -------------------- the Timer thread: _handle_timeout ------------------ *)
\* The interval has elapsed and the timer was not cancelled: the thread calls
\* self._handle_timeout(proc, timeout).
TimerFire(r) ==
    /\ timerSt[r].st = "armed"
    /\ timerSt' = [timerSt EXCEPT ![r].st = "l142"]
    /\ UNCHANGED <<runnable, dry_run, status, timerField, data, drv, envv, todo, entryv, pc,
                   cur, nruns, case, cmd, procv, linev, codev, pending, child,
                   log, last, nint>>

\* the handler without the test of line 142
TimeoutApplies_Always(r) == TRUE
\* line 142: if proc is not None and proc.poll() is None
TimeoutApplies(r) == poll_is_None(child[r])

T142_Check(r) ==
    /\ timerSt[r].st = "l142"
    /\ timerSt' = [timerSt EXCEPT ![r].st =
                        IF TimeoutApplies(r) THEN "l143" ELSE "done"]
    /\ UNCHANGED <<runnable, dry_run, status, timerField, data, drv, envv, todo, entryv, pc,
                   cur, nruns, case, cmd, procv, linev, codev, pending, child,
                   log, last, nint>>

\* line 143: proc.terminate()
T143_Terminate(r) ==
    /\ timerSt[r].st = "l143"
    /\ child' = [child EXCEPT ![r] = terminate(child[r])]
    /\ timerSt' = [timerSt EXCEPT ![r].st = "l144"]
    /\ UNCHANGED <<runnable, dry_run, status, timerField, data, drv, envv, todo, entryv, pc,
                   cur, nruns, case, cmd, procv, linev, codev, pending, log, last, nint>>

\* line 144: self._handle_exit(None, timeout=timeout)
T144_Exit(r) ==
    /\ timerSt[r].st = "l144"
    /\ Emit(_handle_exit(r, NoCode, FALSE, timerSt[r].to))
    /\ timerSt' = [timerSt EXCEPT ![r].st = "reported"]
    /\ UNCHANGED <<runnable, dry_run, status, timerField, data, drv, envv, todo, entryv, pc,
                   cur, nruns, case, cmd, procv, linev, codev, pending, child, nint>>

(* --------------------------- the child process --------------------------- *)
\* the timer thread has begun to call _handle_timeout
Fired(t) == t.st \in {"l142", "l143", "l144", "done", "reported"}

\* The child writes a line to its merged stdout/stderr.
ChildWrite(r) ==
    /\ child[r].st = "alive" /\ child[r].open
    /\ child[r].produced < MaxLines
    /\ child' = [child EXCEPT ![r].produced = @ + 1]
    /\ UNCHANGED <<runnable, dry_run, status, timerField, data, drv, envv, todo, entryv, pc,
                   cur, nruns, case, cmd, procv, linev, codev, pending, timerSt,
                   log, last, nint>>

\* The child closes its output and goes on running.
ChildClose(r) ==
    /\ child[r].st = "alive" /\ child[r].open
    /\ child' = [child EXCEPT ![r].open = FALSE]
    /\ UNCHANGED <<runnable, dry_run, status, timerField, data, drv, envv, todo, entryv, pc,
                   cur, nruns, case, cmd, procv, linev, codev, pending, timerSt,
                   log, last, nint>>

\* The child exits: with a code of its own, or killed by a SIGTERM it was
\* sent and did not handle.  Its end of the pipe is closed.  The exit status
\* of a child whose run is over is collected by nobody.
ChildExit(r) ==
    /\ child[r].st = "alive"
    /\ \E c \in ExitCodes \cup {-SIGTERM} :
        /\ c = -SIGTERM => child[r].term
        /\ child' = [child EXCEPT ![r].st = "exited",
                                  ![r].code = IF r = cur THEN c ELSE NoCode,
                                  ![r].open = FALSE,
                                  ![r].early = ~ Fired(timerSt[r])]
    /\ UNCHANGED <<runnable, dry_run, status, timerField, data, drv, envv, todo, entryv, pc,
                   cur, nruns, case, cmd, procv, linev, codev, pending, timerSt,
                   log, last, nint>>

(* ------------------------- LocalTestRunner.run --------------------------- *)
Profiles == [env : {Absent, Map(EnvG)}, cases : -1..MaxCases]

\* run(data) is called (line 168)
Run(d) ==
    /\ drv = "idle" /\ pc = "idle" /\ nruns = 0
    /\ data' = d
    /\ todo' = IF d.cases < 0 THEN 0 ELSE d.cases
    /\ drv' = "l172"
    /\ UNCHANGED <<runnable, dry_run, status, timerField, envv, entryv, pc, cur, nruns, case,
                   cmd, procv, linev, codev, pending, child, timerSt, log, last, nint>>

\* line 172: env = data.get('env', {})
R172_Env ==
    /\ drv = "l172" /\ pc = "idle"
    /\ envv' = Get(data, "env", Map({})).m
    /\ drv' = "l173"
    /\ UNCHANGED <<runnable, dry_run, status, timerField, data, todo, entryv, pc, cur, nruns,
                   case, cmd, procv, linev, codev, pending, child, timerSt, log, last,
                   nint>>

\* line 173: self._status = 'Running'
R173_Running ==
    /\ drv = "l173" /\ pc = "idle"
    /\ status' = "Running"
    /\ drv' = "l174"
    /\ UNCHANGED <<runnable, dry_run, timerField, data, envv, todo, entryv, pc, cur, nruns,
                   case, cmd, procv, linev, codev, pending, child, timerSt, log, last,
                   nint>>

\* line 174: for case in data['cases'].  A missing key raises KeyError; when
\* the list is used up the loop ends.  Both leave through line 185.
R174_Iterate ==
    /\ drv = "l174" /\ pc = "idle"
    /\ IF data.cases < 0
       THEN /\ drv' = "raised"
            /\ status' = StatusAfterRun(TRUE)
            /\ UNCHANGED <<todo, entryv>>
       ELSE IF todo = 0
       THEN /\ drv' = "done"
            /\ status' = StatusAfterRun(FALSE)
            /\ UNCHANGED <<todo, entryv>>
       ELSE \E e \in Entries :
                /\ entryv' = e
                /\ todo' = todo - 1
                /\ drv' = "l175"
                /\ status' = status
    /\ UNCHANGED <<runnable, dry_run, timerField, data, envv, pc, cur, nruns, case, cmd,
                   procv, linev, codev, pending, child, timerSt, log, last, nint>>

\* lines 175-182: the descriptor of the entry, its arguments in the order
\* the code passes them
caseinfo(entry, env) ==
    TestCaseInfo(
        NameOf(entry.name.s),
        Get(entry, "args", Str("")).s,
        Get(entry, "timeout", Num(0)),
        Map(Merge(env, Get(entry, "env", Map({})).m)),
        Get(entry, "skip", Bool(FALSE)) # Bool(FALSE),
        Get(entry, "skip", Str("Skipped")))

\* lines 175-182; case['name'] raises KeyError when the key is missing
R175_Build ==
    /\ drv = "l175" /\ pc = "idle"
    /\ IF entryv.name.ty = "absent"
       THEN drv' = "raised" /\ status' = StatusAfterRun(TRUE) /\ case' = case
       ELSE drv' = "l183" /\ status' = status /\ case' = caseinfo(entryv, envv)
    /\ UNCHANGED <<runnable, dry_run, timerField, data, envv, todo, entryv, pc, cur, nruns,
                   cmd, procv, linev, codev, pending, child, timerSt, log, last, nint>>

\* line 183: self.runcase(caseinfo)
R183_Call ==
    /\ drv = "l183" /\ pc = "idle"
    /\ drv' = "in183"
    /\ nruns' = nruns + 1
    /\ cur' = nruns + 1
    /\ pc' = "l51"
    /\ runnable' = (~ case.skip /\ Resolvable(case.name, case.args))
    /\ log' = << <<nruns + 1, "call">> >>
    /\ last' = Mark(nruns + 1, "call")
    /\ UNCHANGED <<dry_run, status, timerField, data, envv, todo, entryv, case, cmd,
                   procv, linev, codev, pending, child, timerSt, nint>>

(* --------------------------- specification ------------------------------- *)
Main ==
    \/ L51_Skip \/ L54_Resolve \/ L60_Before \/ L61_DryRun \/ L67_Popen
    \/ L77_TimerCheck \/ L78_TimerCreate \/ L79_TimerStart \/ L81_Readline
    \/ L83_Output \/ L84_Poll \/ L86_Exit \/ L90_Exception
    \/ L135_IntrCheck \/ L136_IntrTerminate \/ L137_IntrWait \/ L137_IntrExit
    \/ L139_IntrGraceOver \/ L91_EndOfClause \/ L92_Finally \/ L94_Cancel \/ L95_Clear \/ L96_After
Driver ==
    \/ \E d \in Profiles : Run(d)
    \/ R172_Env \/ R173_Running \/ R174_Iterate \/ R175_Build \/ R183_Call
TimerThread(r) ==
    TimerFire(r) \/ T142_Check(r) \/ T143_Terminate(r) \/ T144_Exit(r)
Child(r) ==
    ChildWrite(r) \/ ChildClose(r) \/ ChildExit(r)

Next ==
    \/ \E d \in Descriptors : CallRuncase(d)
    \/ Main
    \/ Driver
    \/ Interrupt
    \/ \E r \in Runs : TimerThread(r)
    \/ \E r \in Runs : Child(r)

Spec == Init /\ [][Next]_vars

\* The main thread runs on whenever its next statement can be carried out:
\* it waits in readline (line 81) and in proc.wait(10) (line 137) only.  The
\* steps of run between two calls of runcase are steps of that same
\* thread.  Every child that was spawned exits in the end, which closes its
\* end of the pipe.  Calls of runcase and run, interrupts, the timer thread
\* and the output of a child are under no obligation.
\* The behaviours looked at for termination have at most LiveInterrupts
\* interrupts and children that write at most LiveLines lines.
DriverStep == R172_Env \/ R173_Running \/ R174_Iterate \/ R175_Build \/ R183_Call
LiveInterrupt == nint < LiveInterrupts /\ Interrupt
LiveChildWrite(r) == child[r].produced < LiveLines /\ ChildWrite(r)
FairNext ==
    \/ \E d \in Descriptors : CallRuncase(d)
    \/ Main
    \/ Driver
    \/ LiveInterrupt
    \/ \E r \in Runs : TimerThread(r)
    \/ \E r \in Runs : LiveChildWrite(r) \/ ChildClose(r) \/ ChildExit(r)
FairSpec ==
    /\ Init /\ [][FairNext]_vars
    /\ WF_vars(Main)
    /\ WF_vars(DriverStep)
    /\ \A r \in Runs : WF_vars(ChildExit(r))

(* ======================================================================= *)
(*                               the claims                                 *)
(* ======================================================================= *)
Outcomes == {"Exited", "TimedOut", "Interrupted", "SpawnOrRuntimeError"}
\* the outcomes the main thread reports; TimedOut comes from the timer thread
MainOutcomes == Outcomes \ {"TimedOut"}

\* the run of the latest call of runcase
ThisRun == log[1][1]
\* the places of the log where run r reported one of kinds
At(r, kinds) == {i \in 1..Len(log) : log[i][1] = r /\ log[i][2] \in kinds}
Count(r, kinds) == Cardinality(At(r, kinds))
Returned(r) == At(r, {"return"}) # {}
Left(r) == At(r, {"return", "raise"}) # {}
IsTimedOut(e) == e.kind = "exit" /\ e.to # Absent
IsInterrupted(e) == e.kind = "exit" /\ e.to = Absent /\ e.intr
IsExited(e) == e.kind = "exit" /\ e.to = Absent /\ ~ e.intr

\* C1: every runcase call on a non-skipped, resolvable case emits exactly one
\* terminal outcome: never more than one, and one by the time it has returned.
C1_ExactlyOneOutcome ==
    (log # <<>> /\ runnable) =>
        /\ Count(ThisRun, Outcomes) <= 1
        /\ Returned(ThisRun) => Count(ThisRun, Outcomes) = 1

\* C2: when the timer of a run fires and finds the child alive, the engine
\* requests termination, reports TimedOut with the timeout of the case, and
\* reports no other terminal outcome for that run.  The run is one that
\* nothing else disturbs: no interrupt, no exception.
C2_TimedOutOnly ==
    \A r \in Runs :
        /\ timerSt[r].st \in {"l144", "reported"} =>
                (child[r].term \/ child[r].st = "exited")
        /\ (IsTimedOut(last) /\ last.run = r) => last.to = timerSt[r].to
        /\ (timerSt[r].st \in {"l143", "l144", "reported"} /\ log # <<>>
              /\ ThisRun = r /\ At(r, {"interrupt", "interrupt_exited"}) = {}
              /\ Count(r, {"SpawnOrRuntimeError"}) = 0) =>
                Count(r, MainOutcomes) = 0

\* C3: a child that exits before the timer of its run has fired is never
\* reported as TimedOut, during runcase or after it; when nothing else
\* disturbs the run (no interrupt, no exception) its one terminal outcome is
\* Exited with the child's exit code.
C3_NoTimeoutAfterExit ==
    \A r \in Runs :
        child[r].early =>
            /\ timerSt[r].st \notin {"l143", "l144", "reported"}
            /\ ~ (IsTimedOut(last) /\ last.run = r)
            /\ (log # <<>> /\ ThisRun = r) =>
                /\ Count(r, {"TimedOut"}) = 0
                /\ (pc = "l86x" /\ cur = r /\ last.run = r) =>
                        (IsExited(last) /\ last.code = child[r].code)
                /\ (Returned(r) /\ At(r, {"interrupt", "interrupt_exited"}) = {}
                      /\ Count(r, {"SpawnOrRuntimeError"}) = 0) =>
                        (Count(r, Outcomes) = 1 /\ Count(r, {"Exited"}) = 1)
\* the timer fired after the exit, found the child gone, and the run returned
C3_Witness ==
    /\ log # <<>>
    /\ child[ThisRun].early
    /\ timerSt[ThisRun].st = "done"
    /\ Count(ThisRun, {"Exited"}) = 1
    /\ Returned(ThisRun)

\* C4: every non-skipped, resolvable case has the pre-run hook and the
\* post-run hook called exactly once each, the pre-run hook first, on every
\* path on which runcase returns.
C4_HooksBracket ==
    (log # <<>> /\ runnable) =>
        /\ Count(ThisRun, {"pre"}) <= 1
        /\ Count(ThisRun, {"post"}) <= 1
        /\ \A i \in At(ThisRun, {"post"}) : \E j \in At(ThisRun, {"pre"}) : j < i
        /\ Returned(ThisRun) =>
                (Count(ThisRun, {"pre"}) = 1 /\ Count(ThisRun, {"post"}) = 1)

\* C5: once a terminal outcome has been reported for a run, no output line
\* of that run is forwarded to the output hook.
C5_OutcomeIsLast ==
    \A i, j \in 1..Len(log) :
        (i < j /\ log[i][1] = log[j][1] /\ log[i][2] \in Outcomes) =>
            log[j][2] # "line"

\* C6: an interrupt that arrives between the spawn and the exit report and
\* finds the child alive requests its termination, waits without blocking
\* for good, and reports Interrupted: with the exit code of a child that
\* exited within the grace period, with no code otherwise; runcase goes on
\* to its end and returns, even when the child never exits.
C6_State ==
    /\ pc = "l137" => (child[procv].term \/ child[procv].st = "exited")
    /\ pc = "l137e" => (child[procv].st = "exited" /\ codev = child[procv].code)
    /\ pc \in {"l136", "l137", "l137e", "l139"} =>
            ENABLED (L136_IntrTerminate \/ L137_IntrWait \/ L137_IntrExit
                        \/ L139_IntrGraceOver)
    /\ (log # <<>>) => Count(ThisRun, {"Interrupted"}) <= 1
    /\ (log # <<>> /\ Returned(ThisRun) /\ child[ThisRun].st = "alive"
          /\ Count(ThisRun, {"SpawnOrRuntimeError"}) = 0) =>
            (child[ThisRun].term /\ Count(ThisRun, {"Interrupted"}) = 1)
C6_Step ==
    /\ (pc = "l135" /\ pc' # pc /\ nint' = nint /\ procv # 0
          /\ child[procv].st = "alive") => pc' = "l136"
    /\ (pc = "l136" /\ pc' = "l137") =>
            (child'[procv].term \/ child[procv].st = "exited")
    /\ (pc = "l137" /\ pc' = "l139") => child[procv].st = "alive"
    /\ (pc = "l137e" /\ pc' = "l91") =>
            last' = _handle_exit(cur, child[cur].code, TRUE, Absent)
    /\ (pc = "l139" /\ pc' = "l91") =>
            last' = _handle_exit(cur, NoCode, TRUE, Absent)
    /\ (pc \in {"l137e", "l139"} /\ pc' = "l91") =>
            Len(log') = Len(log) + 1 /\ log'[Len(log')] = <<cur, "Interrupted">>
C6_InterruptGrace == []C6_State /\ [][C6_Step]_vars
\* the grace period ran out, Interrupted was reported without a code, and
\* runcase returned while the child is still alive
C6_Witness ==
    /\ log # <<>>
    /\ Returned(ThisRun)
    /\ Count(ThisRun, {"Interrupted"}) = 1
    /\ child[ThisRun].st = "alive" /\ child[ThisRun].term

\* C7: an interrupt delivered when the child has already exited makes the
\* main thread report no outcome after it: nothing is added to the Exited
\* that was reported for the exit.
C7_InterruptAfterExit ==
    \A i, j \in 1..Len(log) :
        (i < j /\ log[i][2] = "interrupt_exited" /\ log[j][1] = log[i][1]) =>
            log[j][2] \notin MainOutcomes
\* Exited was reported, then the interrupt came, and runcase is over
C7_Witness ==
    /\ log # <<>>
    /\ Left(ThisRun)
    /\ \E i \in At(ThisRun, {"Exited"}) :
            \E j \in At(ThisRun, {"interrupt_exited"}) : i < j

\* C8: no case run aborts the batch: runcase never leaves by an exception
\* when run has called it for a non-skipped, resolvable case.
C8_NoAbort ==
    (drv \in {"in183", "l174", "done", "raised"} /\ log # <<>> /\ runnable) =>
        At(ThisRun, {"raise"}) = {}

\* C9: the status is Idle before run is called and after it has returned or
\* raised, and Running while a case of the batch is executing.
C9_Status ==
    /\ drv \in {"idle", "done", "raised"} => status = "Idle"
    /\ drv = "in183" => status = "Running"
\* an exception left a case run and the driver loop; the status is Idle
C9_Witness ==
    /\ drv = "raised"
    /\ log # <<>> /\ At(ThisRun, {"raise"}) # {}
    /\ status = "Idle"

\* C10: the descriptor run hands to runcase has the global env overridden by
\* the entry's env as its environment, and the entry's timeout (0 when
\* absent) as its timeout.
C10_Descriptor ==
    drv = "l183" =>
        /\ case.env = Map(Merge(envv, Get(entryv, "env", Map({})).m))
        /\ case.timeout = Get(entryv, "timeout", Num(0))

\* the part of a log that the run of its call reported itself; a timer
\* thread of an earlier run may report in between
Own(l) == SelectSeq(l, LAMBDA e : e[1] = l[1][1])

\* C11: a case with the skip flag set makes runcase report exactly one
\* Skipped event with the reason of the case and return: nothing is looked
\* up, no pre-run or post-run hook is called, no timer and no child exists.
C11_State ==
    /\ (cur # 0 /\ case.skip) =>
            /\ pc = "l51"
            /\ Own(log) = << <<cur, "call">> >>
            /\ child[cur] = NoChild /\ timerSt[cur] = NoTimer
    /\ (log # <<>> /\ At(ThisRun, {"skip"}) # {}) =>
            /\ Own(log) = << <<ThisRun, "call">>, <<ThisRun, "skip">>,
                             <<ThisRun, "return">> >>
            /\ child[ThisRun] = NoChild /\ timerSt[ThisRun] = NoTimer
C11_Step ==
    (pc = "l51" /\ case.skip /\ nint' = nint /\ pc' # pc) =>
        /\ Own(log') = << <<cur, "call">>, <<cur, "skip">>, <<cur, "return">> >>
        /\ last'.kind = "skip" /\ last'.val = case.skipreason
        /\ UNCHANGED <<child, timerSt, timerField>>
C11_Skip == []C11_State /\ [][C11_Step]_vars
\* a skipped case was reported with its reason and runcase returned
C11_Witness ==
    /\ log # <<>>
    /\ Own(log) = << <<ThisRun, "call">>, <<ThisRun, "skip">>, <<ThisRun, "return">> >>
    /\ last.kind = "skip" /\ last.val = Str("flaky")

\* C12: in batch mode a case entry is skipped exactly when it has a skip
\* field whose value is not false; the skip reason is that value when it is
\* a string, and "Skipped" when it is true.
C12_SkipField ==
    drv = "l183" =>
        /\ case.skip = (entryv.skip # Absent /\ entryv.skip # Bool(FALSE))
        /\ (case.skip /\ entryv.skip.ty = "str") => case.skipreason = entryv.skip
        /\ (case.skip /\ entryv.skip = Bool(TRUE)) =>
                case.skipreason = Str("Skipped")

\* C13: a case that is not skipped and whose file has an unsupported
\* extension (c.txt), is a directory (d.sh), does not exist (e.sh) or has a
\* base name other than the requested name (sub/a.sh) makes runcase report
\* exactly one UnknownCase event and return: no pre-run hook is called, no
\* timer and no child exists.
UnknownNames == {C_TXT, D_SH, E_SH, SUB_A_SH}
C13_State ==
    /\ (cur # 0 /\ ~ case.skip /\ case.name \in UnknownNames) =>
            /\ pc \in {"l51", "l54"}
            /\ Own(log) = << <<cur, "call">> >>
            /\ child[cur] = NoChild /\ timerSt[cur] = NoTimer
    /\ (log # <<>> /\ At(ThisRun, {"unknown"}) # {}) =>
            /\ Own(log) = << <<ThisRun, "call">>, <<ThisRun, "unknown">>,
                             <<ThisRun, "return">> >>
            /\ child[ThisRun] = NoChild /\ timerSt[ThisRun] = NoTimer
C13_Step ==
    (pc = "l54" /\ case.name \in UnknownNames /\ nint' = nint /\ pc' # pc) =>
        /\ Own(log') = << <<cur, "call">>, <<cur, "unknown">>, <<cur, "return">> >>
        /\ last'.kind = "unknown"
        /\ UNCHANGED <<child, timerSt, timerField>>
C13_UnknownCase == []C13_State /\ [][C13_Step]_vars
\* an unresolvable case was reported as unknown and runcase returned
C13_Witness ==
    /\ log # <<>>
    /\ Own(log) = << <<ThisRun, "call">>, <<ThisRun, "unknown">>,
                     <<ThisRun, "return">> >>
    /\ last.kind = "unknown" /\ last.run = ThisRun

\* C14: in dry-run mode a non-skipped, resolvable case has its pre-run
\* notification reported, then exactly Exited(0), and runcase returns; no
\* child and no timer ever exists, whatever the timeout of the case.
C14_State ==
    dry_run =>
        /\ timerField = 0
        /\ \A r \in Runs : child[r] = NoChild /\ timerSt[r] = NoTimer
        /\ (log # <<>> /\ runnable /\ Returned(ThisRun)) =>
                /\ log = << <<ThisRun, "call">>, <<ThisRun, "pre">>,
                            <<ThisRun, "Exited">>, <<ThisRun, "return">> >>
                /\ IsExited(last) /\ last.code = 0 /\ last.run = ThisRun
C14_Step ==
    (dry_run /\ pc = "l61" /\ nint' = nint /\ pc' # pc) =>
        /\ pc' = "idle"
        /\ log' = << <<cur, "call">>, <<cur, "pre">>, <<cur, "Exited">>,
                     <<cur, "return">> >>
C14_DryRun == []C14_State /\ [][C14_Step]_vars
\* a dry run of a resolvable case has reported Exited(0) and returned
C14_Witness ==
    /\ dry_run /\ runnable /\ log # <<>>
    /\ log = << <<ThisRun, "call">>, <<ThisRun, "pre">>, <<ThisRun, "Exited">>,
                <<ThisRun, "return">> >>
    /\ last.code = 0

\* C15: the lines of the child are forwarded to the output hook in the
\* order the child wrote them; Exited(code) is reported only when the
\* stream is at its end and the child has exited, so every line the child
\* wrote was forwarded before, and code is the exit code of the child.
C15_State ==
    pc \in {"l86", "l86x"} =>
        /\ child[cur].st = "exited" /\ ~ child[cur].open
        /\ Count(cur, {"line"}) = child[cur].produced
        /\ child[cur].code \in ExitCodes \cup {-SIGTERM}
C15_Step ==
    /\ (pc = "l83" /\ pc' = "l81") =>
            /\ last'.kind = "line" /\ last'.run = cur
            /\ last'.n = Count(cur, {"line"}) + 1
            /\ log' = Append(log, <<cur, "line">>)
    /\ (pc = "l86" /\ pc' = "l86x") =>
            /\ last' = _handle_exit(cur, child[cur].code, FALSE, Absent)
            /\ log' = Append(log, <<cur, "Exited">>)
C15_OutputOrder == []C15_State /\ [][C15_Step]_vars
\* every line of a child was forwarded, then its exit was reported
C15_Witness ==
    /\ pc = "l86x"
    /\ child[cur].produced = MaxLines
    /\ Count(cur, {"line"}) = MaxLines
    /\ IsExited(last) /\ last.run = cur /\ last.code = child[cur].code

\* C16: a timeout of 0 and a timeout that is not finite mean no timeout: no
\* timer is created for such a case and TimedOut is never reported for it;
\* once a child was spawned, a timer exists exactly when the timeout is a
\* finite number greater than zero.
PositiveFinite(t) == t.ty = "num" /\ t.n > 0
C16_NoTimeout ==
    /\ \A r \in Runs :
            timerSt[r] # NoTimer =>
                (PositiveFinite(timerSt[r].to) /\ child[r].st # "none")
    /\ IsTimedOut(last) => PositiveFinite(last.to)
    /\ \A i \in 1..Len(log) :
            log[i][2] = "TimedOut" => PositiveFinite(timerSt[log[i][1]].to)
    /\ pc \in {"l81", "l83", "l84", "l86", "l86x"} =>
            /\ (timerSt[cur] # NoTimer) = PositiveFinite(case.timeout)
            /\ timerSt[cur] # NoTimer =>
                    (timerSt[cur].to = case.timeout /\ timerSt[cur].st # "created")
\* a child runs under an infinite timeout, and no timer was created
C16_Witness ==
    /\ pc = "l81"
    /\ case.timeout = Inf
    /\ child[cur].st = "alive"
    /\ timerSt[cur] = NoTimer /\ timerField = 0

\* C17: when runcase has returned, the timer of that run cannot fire any
\* more, and it reports nothing from then on: no TimedOut comes after the
\* return of the run, whatever the timer thread and the cleanup of the main
\* thread do in between.
C17_TimerQuiet ==
    (log # <<>> /\ Returned(ThisRun)) =>
        /\ timerSt[ThisRun].st \notin {"created", "armed"}
        /\ \A i \in At(ThisRun, {"TimedOut"}) :
                \A j \in At(ThisRun, {"return"}) : i < j

\* C18: a runcase call on a non-skipped, resolvable case has reported at
\* least one terminal outcome by the time it returns, also when an
\* interrupt arrived during the run, with the child alive or exited.  The
\* runs looked at are those that spawned their child.
C18_NoSilentRun ==
    (log # <<>> /\ runnable /\ Returned(ThisRun)
      /\ child[ThisRun].st # "none") =>
        Count(ThisRun, Outcomes) >= 1

\* C19: at most one child process is alive at any time: when the child of
\* a later case is alive, the child of every earlier case has exited.  The
\* earlier cases looked at are those that an interrupt ended: the one
\* interrupt of the behaviour came during run r, whose child was sent
\* SIGTERM by _handle_interrupt (run r had no timer), and runcase returned.
EndedByInterrupt(r) ==
    nint = 1 /\ r # cur /\ child[r].term /\ timerSt[r] = NoTimer
C19_OneChild ==
    \A r, q \in Runs :
        (r < q /\ child[q].st = "alive" /\ EndedByInterrupt(r)) =>
            child[r].st # "alive"

\* C20: when every spawned child exits in the end and the main thread is
\* not held up, every call of runcase that spawned a child returns, and it
\* returns with its cleanup done (timer cancelled and cleared, post-run hook
\* called); every batch ends with the status Idle and with all of its cases
\* used up.  Left aside: a KeyboardInterrupt that arrives while the call
\* has no child (before the spawn, or between two calls of a batch) and a
\* malformed profile (no 'cases', a case without 'name').
Interrupted_(r) == At(r, {"interrupt", "interrupt_exited"}) # {}
Malformed == data.cases < 0 \/ entryv.name = Absent
NoChildInterrupt ==
    nint > 0 /\ (log = <<>> \/ Returned(ThisRun) \/ child[ThisRun].st = "none")
C20_Cleanup ==
    (log # <<>> /\ Returned(ThisRun) /\ child[ThisRun].st # "none") =>
        /\ Count(ThisRun, {"post"}) = 1
        /\ timerField = 0
        /\ timerSt[ThisRun].st \notin {"created", "armed"}
C20_Terminates ==
    /\ []C20_Cleanup
    /\ (pc # "idle") ~>
            (pc = "idle" /\ log # <<>>
              /\ (Returned(ThisRun) \/ NoChildInterrupt))
    /\ (drv \notin {"idle", "done", "raised"}) ~>
            (/\ status = "Idle"
             /\ \/ drv = "done" /\ todo = 0
                \/ drv = "raised" /\ (Malformed \/ NoChildInterrupt))
\* What holds of every fair behaviour: no call of runcase and no batch goes
\* on for ever.  A call is left by a return or, after a KeyboardInterrupt
\* delivered during the call, by that exception; a batch ends with the
\* status Idle, before its cases are used up only after an interrupt or on
\* a malformed profile.
C20_NoHang ==
    /\ []C20_Cleanup
    /\ (pc # "idle") ~>
            (pc = "idle" /\ log # <<>>
              /\ (Returned(ThisRun) \/ Interrupted_(ThisRun)))
    /\ (drv \notin {"idle", "done", "raised"}) ~>
            (/\ status = "Idle"
             /\ \/ drv = "done" /\ todo = 0
                \/ drv = "raised" /\ (nint > 0 \/ Malformed))

====
